---- MODULE Spec2Model ----
(***************************************************************************)
(* Model of ratel-cli (src/src/main.rs): the integrity ledger ratel.yaml,  *)
(* the tracked scenario files, and the four commands init, check, certify  *)
(* and run, run being the audit orchestrator that walks the parse tree and *)
(* calls the external engine cdd_core once per action.                     *)
(*                                                                         *)
(* A string is a sequence of chunks: a chunk is either the quote character *)
(* or a run of characters without a quote.  A scenario text is a sequence  *)
(* of lines, a line a sequence of tokens, a token a string.                *)
(***************************************************************************)
EXTENDS Integers, Sequences, FiniteSets, TLC

\* ------------------------------------------------------------------ bounds

\* Number of edits the environment makes to the files of the project.
MaxEdits == 2
\* Number of readings of the wall clock (Utc::now) by the commands.
MaxClock == 3
\* The invocations started side by side.
MaxStarts == 3

\* ----------------------------------------------------------------- strings

QUOTE == "\""
SPACE == " "

\* A bare word, a terminated quoted string, an unterminated quoted string.
W(s) == <<s>>
Q(s) == <<QUOTE, s, QUOTE>>
U(s) == <<QUOTE, s>>

\* str::replace("\"", "")
StripQuotes(str) == SelectSeq(str, LAMBDA c : c # QUOTE)

RECURSIVE JoinFrom(_, _)
JoinFrom(toks, i) ==
    IF i > Len(toks) THEN <<>>
    ELSE IF i = Len(toks) THEN toks[i]
    ELSE toks[i] \o <<SPACE>> \o JoinFrom(toks, i + 1)

\* The source text a span of tokens i.. of one line covers.
SpanStr(toks, i) == JoinFrom(toks, i)

\* ------------------------------------------------------------------ texts

DefaultScenario ==
    << <<W("SCENARIO"), Q("Access audit")>>,
       <<W("TARGET"), Q("http://localhost:8080")>>,
       <<W("WITH_SCOPE"), W("KERNEL")>>,
       <<>>,
       <<W("STEP"), Q("Secure transport verification")>>,
       <<W("ATTACK"), W("secure_headers")>>,
       <<W("CHECK"), W("header"), Q("Strict-Transport-Security"), W("EXISTS")>>,
       <<W("CHECK"), W("response.status"), W("BE"), W("200")>> >>


\* An expert's revision: two steps, a check followed by an attack in the second.
TwoStepScenario ==
    << <<W("SCENARIO"), Q("Login audit")>>,
       <<W("TARGET"), Q("http://localhost:8080")>>,
       <<W("WITH_SCOPE"), W("KERNEL")>>,
       <<W("STEP"), Q("Probe")>>,
       <<W("ATTACK"), W("sql_injection")>>,
       <<W("STEP"), Q("Verify")>>,
       <<W("CHECK"), W("response.status"), W("BE"), W("403")>>,
       <<W("ATTACK"), W("secure_headers")>> >>

\* A well-formed step followed by a step whose title is never terminated.
UnterminatedScenario ==
    << <<W("SCENARIO"), Q("Access audit")>>,
       <<W("TARGET"), Q("http://localhost:8080")>>,
       <<W("WITH_SCOPE"), W("KERNEL")>>,
       <<W("STEP"), Q("Secure transport verification")>>,
       <<W("ATTACK"), W("secure_headers")>>,
       <<W("CHECK"), W("response.status"), W("BE"), W("200")>>,
       <<W("STEP"), U("Second step")>>,
       <<W("ATTACK"), W("sql_injection")>> >>

\* A scenario with no TARGET statement.
NoTargetScenario ==
    << <<W("SCENARIO"), Q("Access audit")>>,
       <<W("WITH_SCOPE"), W("KERNEL")>>,
       <<W("STEP"), Q("Secure transport verification")>>,
       <<W("ATTACK"), W("secure_headers")>> >>

\* The contents a scenario file may have, by name, and the text of each.
Texts == {"default", "twostep", "unterminated", "notarget"}

Source(content) ==
    CASE content = "default" -> DefaultScenario
      [] content = "twostep" -> TwoStepScenario
      [] content = "unterminated" -> UnterminatedScenario
      [] content = "notarget" -> NoTargetScenario

generate_default_scenario == "default"

\* ----------------------------------------------------------------- parser
\* The grammar ratel.pest of the Scenario Parser:
\*   file     := scenario target scope step*
\*   scenario := "SCENARIO" quoted_string      target := "TARGET" quoted_string
\*   scope    := "WITH_SCOPE" identifier
\*   step     := "STEP" quoted_string (attack | check)*
\*   attack   := "ATTACK" identifier           check  := "CHECK" free text
\* A pair of the parse tree has the rule that matched, the source text the
\* match covers (as_str) and the pairs of the rules matched inside it.

NEWLINE == "\n"

Pair(rule, str, inner) == [rule |-> rule, str |-> str, inner |-> inner]

IsWord(tok) == Len(tok) = 1 /\ tok[1] # QUOTE
IsQuoted(tok) == Len(tok) = 3 /\ tok[1] = QUOTE /\ tok[2] # QUOTE /\ tok[3] = QUOTE
Keyword(line, kw) == Len(line) >= 1 /\ line[1] = W(kw)

ScenarioLine(l) == Keyword(l, "SCENARIO") /\ Len(l) = 2 /\ IsQuoted(l[2])
TargetLine(l) == Keyword(l, "TARGET") /\ Len(l) = 2 /\ IsQuoted(l[2])
ScopeLine(l) == Keyword(l, "WITH_SCOPE") /\ Len(l) = 2 /\ IsWord(l[2])
StepLine(l) == Keyword(l, "STEP") /\ Len(l) = 2 /\ IsQuoted(l[2])
AttackLine(l) == Keyword(l, "ATTACK") /\ Len(l) = 2 /\ IsWord(l[2])
CheckLine(l) == Keyword(l, "CHECK") /\ Len(l) >= 2

QuotedPair(l) == Pair("quoted_string", l[2], <<>>)
IdentPair(l) == Pair("identifier", l[2], <<>>)

AttackPair(l) == Pair("attack", SpanStr(l, 1), <<IdentPair(l)>>)
CheckPair(l) == Pair("check", SpanStr(l, 1), <<Pair("free_text", SpanStr(l, 2), <<>>)>>)
CmdPair(l) == IF AttackLine(l) THEN AttackPair(l) ELSE CheckPair(l)
StepPair(l) == Pair("step", SpanStr(l, 1), <<QuotedPair(l)>>)

\* The step with one more command matched inside it.
StepWith(step, l) ==
    Pair("step", step.str \o <<NEWLINE>> \o SpanStr(l, 1), Append(step.inner, CmdPair(l)))

RECURSIVE ParseSteps(_, _, _)
ParseSteps(L, i, steps) ==
    IF i > Len(L) THEN [ok |-> TRUE, pairs |-> steps, at |-> 0]
    ELSE IF StepLine(L[i]) THEN ParseSteps(L, i + 1, Append(steps, StepPair(L[i])))
    ELSE IF Len(steps) > 0 /\ (AttackLine(L[i]) \/ CheckLine(L[i]))
         THEN ParseSteps(L, i + 1,
                         [steps EXCEPT ![Len(steps)] = StepWith(steps[Len(steps)], L[i])])
    ELSE [ok |-> FALSE, pairs |-> <<>>, at |-> i]

\* The statements of a text: its lines that are not blank.
Statements(text) == SelectSeq(text, LAMBDA l : Len(l) > 0)

\* RatelParser::parse(Rule::file, content): Ok(pairs) with the one pair of
\* rule file, or Err at the first statement the grammar rejects.
ParseFile(text) ==
    LET L == Statements(text)
        Err(i) == [ok |-> FALSE, pairs |-> <<>>, at |-> i]
    IN  IF Len(L) < 1 \/ ~ScenarioLine(L[1]) THEN Err(1)
        ELSE IF Len(L) < 2 \/ ~TargetLine(L[2]) THEN Err(2)
        ELSE IF Len(L) < 3 \/ ~ScopeLine(L[3]) THEN Err(3)
        ELSE LET steps == ParseSteps(L, 4, <<>>)
                 head == << Pair("scenario", SpanStr(L[1], 1), <<QuotedPair(L[1])>>),
                            Pair("target", SpanStr(L[2], 1), <<QuotedPair(L[2])>>),
                            Pair("with_scope", SpanStr(L[3], 1), <<IdentPair(L[3])>>) >>
             IN  IF ~steps.ok THEN Err(steps.at)
                 ELSE [ok |-> TRUE,
                       pairs |-> << Pair("file", <<>>,
                                         head \o steps.pairs \o <<Pair("EOI", <<>>, <<>>)>>) >>,
                       at |-> 0]

\* Pairs::as_str(): the source text from the first pair to the last one.
RECURSIVE PairsStrFrom(_, _)
PairsStrFrom(pairs, i) ==
    IF i > Len(pairs) THEN <<>>
    ELSE IF i = Len(pairs) THEN pairs[i].str
    ELSE pairs[i].str \o <<SPACE>> \o PairsStrFrom(pairs, i + 1)

PairsStr(pairs) == PairsStrFrom(pairs, 1)

\* The parse of every content, computed once.
Parsed == [content \in Texts |-> ParseFile(Source(content))]

Valid(content) == Parsed[content].ok

\* The AST of the data model, read off the parse tree.
AstAction(cmd) ==
    IF cmd.rule = "attack" THEN [kind |-> "Attack", arg |-> cmd.inner[1].str]
    ELSE [kind |-> "Check", arg |-> cmd.inner[1].str]

AstStep(step) ==
    [title |-> StripQuotes(step.inner[1].str),
     actions |-> [j \in 1..(Len(step.inner) - 1) |-> AstAction(step.inner[j + 1])]]

Ast(content) ==
    LET recs == Parsed[content].pairs[1].inner
        steps == SelectSeq(recs, LAMBDA r : r.rule = "step")
    IN  [name |-> StripQuotes(recs[1].inner[1].str),
         url |-> StripQuotes(recs[2].inner[1].str),
         scope |-> recs[3].inner[1].str,
         steps |-> [i \in 1..Len(steps) |-> AstStep(steps[i])]]

RECURSIVE FlattenFrom(_, _)
FlattenFrom(steps, i) ==
    IF i > Len(steps) THEN <<>> ELSE steps[i].actions \o FlattenFrom(steps, i + 1)

\* The actions of an AST in source order.
Flatten(ast) == FlattenFrom(ast.steps, 1)


\* ------------------------------------------------------------------ state

ScenarioPath == "security.ratel"
NodeScenarioPath == "tests/ratel/security.ratel"
Paths == {ScenarioPath, NodeScenarioPath}
Contexts == {"generic", "ci"}

VARIABLES
    files,      \* the scenario files of the project, by path
    manifest,   \* whether package.json exists
    ledger,     \* the file ratel.yaml
    clock,      \* the wall clock, advanced by every reading
    edits,      \* the number of edits the environment has made
    cmd,        \* the command that has just ended, "none" at the prompt
    prev,       \* the command before it, if it set a baseline untouched since
    exit,       \* the exit code of the last command
    panic,      \* the panic message of the last command, if it panicked
    calls,      \* the engine calls the last command made and their answers, in order
    stdout,     \* what the last command printed, in order
    procs,      \* the invocations that run side by side, by process
    started     \* the number of invocations started side by side

vars ==
    <<files, manifest, ledger, clock, edits, cmd, prev, exit, panic, calls, stdout,
      procs, started>>

File(content) == [exists |-> TRUE, content |-> content]
NoFile == [exists |-> FALSE, content |-> ""]
\* ratel.yaml holds a document, not a scenario.
NoLedger == [exists |-> FALSE, content |-> <<>>]

None == <<>>
Some(x) == <<x>>

NoPanic == <<>>
ExitOk == 0
ExitParseError == 1
ExitPanic == 101

\* ---------------------------------------------------------------- hashing

\* SHA-256 rendered in hexadecimal: a function of the bytes alone, taken to
\* be free of collisions.
calculate_hash(content) == <<"sha256", content>>

\* ------------------------------------------------------------ ledger file

RatelConfig(version, p_type, context, initialized_at, customized_at, hashes) ==
    [version |-> version, project_type |-> p_type, context |-> context,
     initialized_at |-> initialized_at, customized_at |-> customized_at,
     expert_hashes |-> hashes]

ConfigKeys ==
    <<"version", "project_type", "context", "initialized_at", "customized_at",
      "expert_hashes">>

\* serde_yaml::to_string: one entry per field, in the order of the struct.
ToYaml(config) ==
    << <<"version", config.version>>,
       <<"project_type", config.project_type>>,
       <<"context", config.context>>,
       <<"initialized_at", config.initialized_at>>,
       <<"customized_at", config.customized_at>>,
       <<"expert_hashes", config.expert_hashes>> >>

\* serde_yaml::from_str: Err unless the document has every field.
YamlOk(doc) ==
    /\ Len(doc) = Len(ConfigKeys)
    /\ \A i \in 1..Len(ConfigKeys) : doc[i][1] = ConfigKeys[i]

FromYaml(doc) == RatelConfig(doc[1][2], doc[2][2], doc[3][2], doc[4][2], doc[5][2], doc[6][2])

\* A ratel.yaml cut short after its first field.
TruncatedYaml == << <<"version", "CARGO_PKG_VERSION">> >>

LedgerParsable(l) == l.exists /\ YamlOk(l.content)
Tracked(l) == FromYaml(l.content).expert_hashes
TrackedPaths(l) == DOMAIN Tracked(l)

\* The orders in which a HashMap with these keys may be iterated.
Orders(keys) ==
    {o \in [1..Cardinality(keys) -> keys] :
        \A i, j \in 1..Cardinality(keys) : i # j => o[i] # o[j]}

EmptyMap == [p \in {} |-> <<>>]
MapInsert(m, k, v) == [p \in (DOMAIN m) \cup {k} |-> IF p = k THEN v ELSE m[p]]

\* ------------------------------------------------------- check_integrity

Ok == [ok |-> TRUE, panic |-> NoPanic]
Panicked(msg) == [ok |-> FALSE, panic |-> msg]

ConfigMissingMsg == <<"Run init first.">>
UnwrapErrMsg == <<"called Result::unwrap() on an Err value">>
FileMissingMsg == <<"File missing">>
AlertMsg(path) == <<"ALERT: '", path, "' modified! Audit aborted.">>

\* check_integrity that looks for the tracked files and not at their digests.
RECURSIVE CheckEntriesNoDigest(_, _, _, _)
CheckEntriesNoDigest(hashes, order, i, fs) ==
    IF i > Len(order) THEN Ok
    ELSE IF ~fs[order[i]].exists THEN Panicked(FileMissingMsg)
    ELSE CheckEntriesNoDigest(hashes, order, i + 1, fs)

\* check_integrity that returns after the first entry of the map.
CheckEntriesFirstOnly(hashes, order, i, fs) ==
    IF i > Len(order) \/ i > 1 THEN Ok
    ELSE IF ~fs[order[i]].exists THEN Panicked(FileMissingMsg)
    ELSE IF calculate_hash(fs[order[i]].content) # hashes[order[i]]
         THEN Panicked(AlertMsg(order[i]))
    ELSE Ok

RECURSIVE CheckEntries(_, _, _, _)
CheckEntries(hashes, order, i, fs) ==
    IF i > Len(order) THEN Ok
    ELSE LET path == order[i]
         IN  IF ~fs[path].exists THEN Panicked(FileMissingMsg)
             ELSE IF calculate_hash(fs[path].content) # hashes[path]
                  THEN Panicked(AlertMsg(path))
             ELSE CheckEntries(hashes, order, i + 1, fs)

\* A check_integrity that tells the user to run init whatever is wrong with
\* ratel.yaml.
check_integrityOneMessage(l, fs, order) ==
    IF ~l.exists \/ ~YamlOk(l.content) THEN Panicked(ConfigMissingMsg)
    ELSE CheckEntries(Tracked(l), order, 1, fs)

\* check_integrity against the ledger file l and the files fs, the tracked
\* map being iterated in the given order.
check_integrity(l, fs, order) ==
    IF ~l.exists THEN Panicked(ConfigMissingMsg)
    ELSE IF ~YamlOk(l.content) THEN Panicked(UnwrapErrMsg)
    ELSE CheckEntries(Tracked(l), order, 1, fs)

\* The iteration orders check_integrity may take on ledger file l.
LedgerOrders(l) == IF LedgerParsable(l) THEN Orders(TrackedPaths(l)) ELSE {<<>>}

\* ---------------------------------------------------------------- engine
\* cdd_core: each call either returns {success, message} or does not return
\* (it panics, and the process with it).

Messages == {"m1", "m2"}
Verdict(success, message) == [returns |-> TRUE, success |-> success, message |-> message]
NoReturn == [returns |-> FALSE, success |-> FALSE, message |-> "panic"]
Verdicts == {Verdict(s, m) : s \in BOOLEAN, m \in Messages}
Outcomes == Verdicts \cup {NoReturn}

EnginePanicMsg == <<"cdd_core panicked">>

\* The number of ATTACK and CHECK statements of a text: no run of it makes
\* more engine calls.
NumActionLines(content) ==
    Len(SelectSeq(Source(content), LAMBDA l : Keyword(l, "ATTACK") \/ Keyword(l, "CHECK")))

\* The engines a run of a content may meet: the outcome of each call.
EngineScripts(content) == [1..NumActionLines(content) -> Outcomes]

\* A run that makes no engine call meets no engine.
NoEngine == <<>>

\* ----------------------------------------------------- execute_full_audit

\* A status that does not look at the verdict.
StatusAlwaysSuccess(core_res) == "SUCCESS"

Status(core_res) == IF core_res.success THEN "SUCCESS" ELSE "FAILED"

ActionResult(kind, value, core_res) ==
    [kind |-> kind, value |-> value, target |-> None,
     status |-> Status(core_res), message |-> core_res.message]

\* An engine call as the log keeps it: the entry point, the arguments and
\* what the engine answered.
AttackCall(attack_val, core_res) ==
    [fn |-> "execute_attack", args |-> <<W("attack"), attack_val>>, ret |-> core_res]
CheckCall(check_val, core_res) ==
    [fn |-> "verify_condition", args |-> <<check_val>>, ret |-> core_res]

\* The payload of a command of the parse tree.
AttackVal(c) == PairsStr(c.inner)
CheckVal(c) == c.str

\* One command of a step: the engine call and the ActionResult pushed, or
\* the panic of the engine.
RunAction(c, acc, eng) ==
    LET core_res == eng[Len(acc.calls) + 1]
        isAttack == c.rule = "attack"
        val == IF isAttack THEN AttackVal(c) ELSE CheckVal(c)
        call == IF isAttack THEN AttackCall(val, core_res) ELSE CheckCall(val, core_res)
        kind == IF isAttack THEN "ATTACK" ELSE "CHECK"
    IN  IF ~core_res.returns
        THEN [acc EXCEPT !.calls = Append(@, call), !.panicked = TRUE]
        ELSE [acc EXCEPT !.calls = Append(@, call),
                         !.results = Append(@, ActionResult(kind, val, core_res))]

\* A walk that leaves the step at the first action the engine fails.
RECURSIVE WalkCmdsStopOnFailed(_, _, _, _)
WalkCmdsStopOnFailed(cmds, j, acc, eng) ==
    IF j > Len(cmds) \/ acc.panicked THEN acc
    ELSE IF Len(acc.results) > 0 /\ acc.results[Len(acc.results)].status = "FAILED" THEN acc
    ELSE IF cmds[j].rule \in {"attack", "check"}
         THEN WalkCmdsStopOnFailed(cmds, j + 1, RunAction(cmds[j], acc, eng), eng)
    ELSE WalkCmdsStopOnFailed(cmds, j + 1, acc, eng)

\* for cmd in inner { ... }
RECURSIVE WalkCmds(_, _, _, _)
WalkCmds(cmds, j, acc, eng) ==
    IF j > Len(cmds) \/ acc.panicked THEN acc
    ELSE IF cmds[j].rule \in {"attack", "check"}
         THEN WalkCmds(cmds, j + 1, RunAction(cmds[j], acc, eng), eng)
    ELSE WalkCmds(cmds, j + 1, acc, eng)

\* Rule::step => { ... }
RunStep(record, acc, eng) ==
    LET title == StripQuotes(record.inner[1].str)
        done == WalkCmds(Tail(record.inner), 1,
                         [results |-> <<>>, calls |-> acc.calls, panicked |-> FALSE], eng)
    IN  IF done.panicked
        THEN [acc EXCEPT !.calls = done.calls, !.panicked = TRUE]
        ELSE [acc EXCEPT !.calls = done.calls,
                         !.report.steps =
                             Append(@, [title |-> title, results |-> done.results])]

\* match record.as_rule() { ... }
RunRecord(record, acc, eng) ==
    IF record.rule = "scenario"
    THEN [acc EXCEPT !.report.name = StripQuotes(PairsStr(record.inner))]
    ELSE IF record.rule = "target"
    THEN [acc EXCEPT !.report.target = StripQuotes(PairsStr(record.inner))]
    ELSE IF record.rule = "with_scope"
    THEN [acc EXCEPT !.report.scope = PairsStr(record.inner)]
    ELSE IF record.rule = "step" THEN RunStep(record, acc, eng)
    ELSE acc

\* A walk that ends with the first step.
RECURSIVE WalkRecordsFirstStep(_, _, _, _)
WalkRecordsFirstStep(records, i, acc, eng) ==
    IF i > Len(records) \/ acc.panicked \/ Len(acc.report.steps) >= 1 THEN acc
    ELSE WalkRecordsFirstStep(records, i + 1, RunRecord(records[i], acc, eng), eng)

\* for record in file.into_inner() { ... }
RECURSIVE WalkRecords(_, _, _, _)
WalkRecords(records, i, acc, eng) ==
    IF i > Len(records) \/ acc.panicked THEN acc
    ELSE WalkRecords(records, i + 1, RunRecord(records[i], acc, eng), eng)

NewReport(now) ==
    [name |-> <<>>, target |-> <<>>, scope |-> <<>>, steps |-> <<>>, executed_at |-> now]

\* The walk of the parse tree of a content the grammar accepts, with a
\* report created at time now: the report, the engine calls made and
\* whether the engine panicked.
Orchestrate(content, now, eng) ==
    WalkRecords(Parsed[content].pairs[1].inner, 1,
                [report |-> NewReport(now), calls |-> <<>>, panicked |-> FALSE], eng)

ParseErrorMsg(at) == <<"Syntax error in .ratel file: ", ToString(at)>>

ErrorReport(at) ==
    [status |-> "error", error_type |-> "PARSING_ERROR", message |-> ParseErrorMsg(at)]

ReadErrMsg == <<"Unable to read .ratel file">>

Line(text) == [kind |-> "line", value |-> text]
Json(value) == [kind |-> "json", value |-> value]

Result(code, msg, made, printed, now) ==
    [exit |-> code, panic |-> msg, calls |-> made, stdout |-> printed, now |-> now]

\* The parse result unwrapped: a panic where the error object should be.
OnParseErrorUnwrap(at) == Result(ExitPanic, UnwrapErrMsg, <<>>, <<>>, FALSE)

\* Err(e) => { println!(error_report); std::process::exit(1) }
OnParseError(at) ==
    Result(ExitParseError, NoPanic, <<>>, <<Json(ErrorReport(at))>>, FALSE)

\* fs::read_to_string(path).expect("Unable to read .ratel file")
OnUnreadable == Result(ExitPanic, ReadErrMsg, <<>>, <<>>, FALSE)

\* execute_full_audit(path) on ledger file l and files fs at time now, the
\* tracked map iterated in the given order and the engine answering eng.
\* The field now tells whether the clock was read.
execute_full_audit(path, l, fs, now, order, eng) ==
    LET gate == check_integrity(l, fs, order)
    IN  IF ~gate.ok THEN Result(ExitPanic, gate.panic, <<>>, <<>>, FALSE)
        ELSE IF ~fs[path].exists THEN OnUnreadable
        ELSE LET parsed == Parsed[fs[path].content]
             IN  IF ~parsed.ok
                 THEN OnParseError(parsed.at)
                 ELSE LET done == Orchestrate(fs[path].content, now, eng)
                      IN  IF done.panicked
                          THEN Result(ExitPanic, EnginePanicMsg, done.calls, <<>>, TRUE)
                          ELSE Result(ExitOk, NoPanic, done.calls, <<Json(done.report)>>, TRUE)

\* --------------------------------------------------------------- commands

Command(name, arg) == [name |-> name, arg |-> arg]
\* What the next command remembers of this one.
Last == IF cmd.name \in {"init", "certify"} /\ exit = ExitOk THEN cmd.name ELSE "other"

Init ==
    /\ files = [p \in Paths |-> NoFile]
    /\ manifest \in BOOLEAN
    /\ ledger = NoLedger
    /\ clock = 0
    /\ edits = 0
    /\ cmd = Command("none", "")
    /\ prev = "other"
    /\ exit = ExitOk
    /\ panic = NoPanic
    /\ calls = <<>>
    /\ stdout = <<>>
    /\ procs = <<>>
    /\ started = 0

AtPrompt == cmd.name = "none"

\* The outcome of a command, for the observer.
Finish(name, arg, res) ==
    /\ cmd' = Command(name, arg)
    /\ UNCHANGED prev
    /\ exit' = res.exit
    /\ panic' = res.panic
    /\ calls' = res.calls
    /\ stdout' = res.stdout
    /\ UNCHANGED <<procs, started>>

\* A probe that does not look for package.json.
SniffPathGeneric(hasManifest) == ScenarioPath

\* The default scenario's path and the project type, from package.json.
SniffPath(hasManifest) == IF hasManifest THEN NodeScenarioPath ELSE ScenarioPath
SniffType(hasManifest) == IF hasManifest THEN "Node.js" ELSE "Generic"

\* save_ratel_config(p_type, context, hashes) at time now: the file written.
save_ratel_config(p_type, context, hashes, now) ==
    File(ToYaml(RatelConfig("CARGO_PKG_VERSION", p_type, context, now, None, hashes)))

\* setup_security_file(path, content): the files after fs::write.
setup_security_file(fs, path, content) == [fs EXCEPT ![path] = File(content)]

InitHashes(path, content) == MapInsert(EmptyMap, path, calculate_hash(content))

InitStdout(path) ==
    << Line(<<"Ratel is sniffing the project structure...">>),
       Line(<<"Expert scenario injected into ", path, ".">>) >>

\* An init that refuses a project that has a ledger.
InitCmdRejectExisting(context) ==
    /\ AtPrompt
    /\ clock < MaxClock
    /\ IF ledger.exists
       THEN /\ Finish("init", context,
                      Result(ExitPanic, <<"AlreadyInitialized">>, <<>>, <<>>, FALSE))
            /\ UNCHANGED <<files, ledger, clock>>
       ELSE LET path == SniffPath(manifest)
                content == generate_default_scenario
            IN  /\ files' = setup_security_file(files, path, content)
                /\ ledger' = save_ratel_config(SniffType(manifest), context,
                                               InitHashes(path, content), clock)
                /\ Finish("init", context,
                          Result(ExitOk, NoPanic, <<>>, InitStdout(path), TRUE))
                /\ clock' = clock + 1
    /\ UNCHANGED <<manifest, edits>>

\* Commands::Init { context }
InitCmd(context) ==
    /\ AtPrompt
    /\ clock < MaxClock
    /\ LET path == SniffPath(manifest)
           content == generate_default_scenario
       IN  /\ files' = setup_security_file(files, path, content)
           /\ ledger' = save_ratel_config(SniffType(manifest), context,
                                          InitHashes(path, content), clock)
           /\ Finish("init", context, Result(ExitOk, NoPanic, <<>>, InitStdout(path), TRUE))
    /\ clock' = clock + 1
    /\ UNCHANGED <<manifest, edits>>

\* Commands::Check
CheckCmd ==
    /\ AtPrompt
    /\ \E order \in LedgerOrders(ledger) :
          LET gate == check_integrity(ledger, files, order)
          IN  Finish("check", "",
                     Result(IF gate.ok THEN ExitOk ELSE ExitPanic, gate.panic, <<>>, <<>>, FALSE))
    /\ UNCHANGED <<files, manifest, ledger, clock, edits>>

CertifyMissingMsg == <<"No ratel.yaml found.">>

\* A certify that keeps the digests it finds in the ledger.
NewHashesKeepOld(hashes, fs) ==
    [p \in {q \in DOMAIN hashes : fs[q].exists} |-> hashes[p]]

\* A certify that keeps the entry of a path it cannot read.
NewHashesKeepMissing(hashes, fs) ==
    [p \in DOMAIN hashes |-> IF fs[p].exists THEN calculate_hash(fs[p].content) ELSE hashes[p]]

\* The map certify_modifications builds: the digest of every tracked path
\* that can be read.
NewHashes(hashes, fs) ==
    [p \in {q \in DOMAIN hashes : fs[q].exists} |-> calculate_hash(fs[p].content)]

\* A certify that persists through save_ratel_config, which stamps
\* initialized_at.
CertifiedRestamped(config, fs, now) ==
    [config EXCEPT !.expert_hashes = NewHashes(config.expert_hashes, fs),
                   !.initialized_at = now,
                   !.customized_at = Some(now)]

\* The configuration certify_modifications writes at time now.
Certified(config, fs, now) ==
    [config EXCEPT !.expert_hashes = NewHashes(config.expert_hashes, fs),
                   !.customized_at = Some(now)]

CertifyStdout == <<Line(<<"New baseline established.">>)>>

\* Commands::Certify
CertifyCmd ==
    /\ AtPrompt
    /\ clock < MaxClock
    /\ IF ~ledger.exists
       THEN /\ Finish("certify", "", Result(ExitPanic, CertifyMissingMsg, <<>>, <<>>, FALSE))
            /\ UNCHANGED <<ledger, clock>>
       ELSE IF ~YamlOk(ledger.content)
       THEN /\ Finish("certify", "", Result(ExitPanic, UnwrapErrMsg, <<>>, <<>>, FALSE))
            /\ UNCHANGED <<ledger, clock>>
       ELSE /\ ledger' = File(ToYaml(Certified(FromYaml(ledger.content), files, clock)))
            /\ clock' = clock + 1
            /\ Finish("certify", "", Result(ExitOk, NoPanic, <<>>, CertifyStdout, TRUE))
    /\ UNCHANGED <<files, manifest, edits>>

\* The engines that matter to a run: every script of outcomes when the run
\* gets as far as the walk, none otherwise.
EnginesFor(path, l, fs, order) ==
    IF check_integrity(l, fs, order).ok /\ fs[path].exists /\ Valid(fs[path].content)
    THEN EngineScripts(fs[path].content)
    ELSE {NoEngine}

\* A run that records a successful audit in ratel.yaml.
RunCmdStamping(path) ==
    /\ AtPrompt
    /\ \E order \in LedgerOrders(ledger) :
       \E eng \in EnginesFor(path, ledger, files, order) :
       \E res \in {execute_full_audit(path, ledger, files, clock, order, eng)} :
              /\ res.now => clock < MaxClock
              /\ clock' = IF res.now THEN clock + 1 ELSE clock
              /\ ledger' = IF res.exit = ExitOk
                            THEN File(ToYaml([FromYaml(ledger.content) EXCEPT
                                                 !.customized_at = Some(clock)]))
                            ELSE ledger
              /\ Finish("run", path, res)
    /\ UNCHANGED <<files, manifest, edits>>

\* Commands::Run { path }
RunCmd(path) ==
    /\ AtPrompt
    /\ \E order \in LedgerOrders(ledger) :
       \E eng \in EnginesFor(path, ledger, files, order) :
       \E res \in {execute_full_audit(path, ledger, files, clock, order, eng)} :
              /\ res.now => clock < MaxClock
              /\ clock' = IF res.now THEN clock + 1 ELSE clock
              /\ Finish("run", path, res)
    /\ UNCHANGED <<files, manifest, ledger, edits>>

\* ------------------------------------------------------------ environment

Edited ==
    /\ edits < MaxEdits
    /\ edits' = edits + 1
    /\ prev' = "other"
    /\ UNCHANGED <<manifest, clock, cmd, exit, panic, calls, stdout, procs, started>>

\* The process has ended and the shell prompts for the next command.
Prompt ==
    /\ ~AtPrompt
    /\ cmd' = Command("none", "")
    /\ prev' = Last
    /\ exit' = ExitOk
    /\ panic' = NoPanic
    /\ calls' = <<>>
    /\ stdout' = <<>>
    /\ UNCHANGED <<files, manifest, ledger, clock, edits, procs, started>>

\* Somebody writes a scenario file.
EditFile(path, content) ==
    /\ AtPrompt
    /\ files[path] # File(content)
    /\ files' = [files EXCEPT ![path] = File(content)]
    /\ UNCHANGED ledger
    /\ Edited

\* Somebody deletes a scenario file.
DeleteFile(path) ==
    /\ AtPrompt
    /\ files[path].exists
    /\ files' = [files EXCEPT ![path] = NoFile]
    /\ UNCHANGED ledger
    /\ Edited

\* Somebody sets the entry of a path in expert_hashes of ratel.yaml by hand,
\* to the digest of some content.
TrackFile(path, content) ==
    /\ AtPrompt
    /\ LedgerParsable(ledger)
    /\ LET config == FromYaml(ledger.content)
           hashes == MapInsert(config.expert_hashes, path, calculate_hash(content))
       IN  /\ hashes # config.expert_hashes
           /\ ledger' = File(ToYaml([config EXCEPT !.expert_hashes = hashes]))
    /\ UNCHANGED files
    /\ Edited

\* ratel.yaml is cut short (a write that did not complete, a bad merge).
TruncateLedger ==
    /\ AtPrompt
    /\ LedgerParsable(ledger)
    /\ ledger' = File(TruncatedYaml)
    /\ UNCHANGED files
    /\ Edited

Next ==
    \/ \E context \in Contexts : InitCmd(context)
    \/ CheckCmd
    \/ CertifyCmd
    \/ \E path \in Paths : RunCmd(path)
    \/ \E path \in Paths, content \in Texts : EditFile(path, content)
    \/ \E path \in Paths : DeleteFile(path)
    \/ \E path \in Paths, content \in Texts : TrackFile(path, content)
    \/ TruncateLedger
    \/ Prompt

Spec == Init /\ [][Next]_vars

\* ------------------------------------------------- invocations side by side
\* Two processes run check and certify on the same directory while somebody
\* edits the scenario files. Every read of a file and every write is a step
\* of its own; what a process computes between two of them is part of the
\* step that follows. Nothing locks ratel.yaml.

Procs == {"p1", "p2"}

\* A process that runs nothing, and the fields of one that does: the
\* operation, the place it is at, the config it parsed, the tracked paths it
\* still has to read, new_hashes, the document it is writing and how it
\* ended. Two fields are the observer's: stale tells whether a certify left
\* a digest that was not the file's when it completed, overlapped whether
\* another invocation or an edit fell into the invocation's lifetime.
Idle ==
    [op |-> "none", pc |-> "idle", config |-> <<>>, todo |-> {}, new |-> EmptyMap,
     doc |-> <<>>, result |-> Ok, stale |-> FALSE, overlapped |-> FALSE]

Active(p) == procs[p].pc \notin {"idle", "done"}

\* Process p takes a step that leaves it as rec.
Step(p, rec) ==
    procs' = [q \in Procs |->
                 IF q = p
                 THEN [rec EXCEPT !.overlapped = @ \/ \E r \in Procs \ {p} : Active(r)]
                 ELSE IF Active(q) THEN [procs[q] EXCEPT !.overlapped = TRUE]
                 ELSE procs[q]]

\* The process ends with a panic.
Died(op, msg) == [Idle EXCEPT !.op = op, !.pc = "done", !.result = Panicked(msg)]

\* The map restricted to one key.
Entry(hashes, path) == [q \in {path} |-> hashes[q]]

\* certify_modifications: read_to_string("ratel.yaml") and from_str.
StartCertify(p) ==
    /\ ~Active(p)
    /\ started < MaxStarts
    /\ started' = started + 1
    /\ Step(p, IF ~ledger.exists THEN Died("certify", CertifyMissingMsg)
               ELSE IF ~YamlOk(ledger.content) THEN Died("certify", UnwrapErrMsg)
               ELSE [Idle EXCEPT !.op = "certify", !.pc = "hash",
                                 !.config = FromYaml(ledger.content),
                                 !.todo = TrackedPaths(ledger)])
    /\ UNCHANGED <<files, manifest, ledger, clock, edits, cmd, prev, exit, panic, calls, stdout>>

\* One turn of the loop over expert_hashes: read_to_string(path) and insert.
CertifyHash(p) ==
    /\ procs[p].op = "certify"
    /\ procs[p].pc = "hash"
    /\ \E path \in procs[p].todo :
          Step(p, [procs[p] EXCEPT
                      !.todo = @ \ {path},
                      !.new = NewHashes(Entry(procs[p].config.expert_hashes, path), files) @@ @])
    /\ UNCHANGED <<files, manifest, ledger, clock, edits, cmd, prev, exit, panic, calls, stdout,
                   started>>

\* After the loop: Utc::now(), to_string, and fs::write as far as it opens
\* ratel.yaml, which empties the file.
CertifyTruncate(p) ==
    /\ procs[p].op = "certify"
    /\ procs[p].pc = "hash"
    /\ procs[p].todo = {}
    /\ clock < MaxClock
    /\ clock' = clock + 1
    /\ ledger' = File(<<>>)
    /\ Step(p, [procs[p] EXCEPT
                   !.pc = "write",
                   !.doc = ToYaml([procs[p].config EXCEPT !.expert_hashes = procs[p].new,
                                                          !.customized_at = Some(clock)])])
    /\ UNCHANGED <<files, manifest, edits, cmd, prev, exit, panic, calls, stdout, started>>

\* fs::write puts the document into the file, and the process ends.
CertifyWrite(p) ==
    /\ procs[p].op = "certify"
    /\ procs[p].pc = "write"
    /\ ledger' = File(procs[p].doc)
    /\ Step(p, [procs[p] EXCEPT
                   !.pc = "done",
                   !.stale = \E q \in DOMAIN procs[p].new :
                                ~files[q].exists
                                    \/ calculate_hash(files[q].content) # procs[p].new[q]])
    /\ UNCHANGED <<files, manifest, clock, edits, cmd, prev, exit, panic, calls, stdout, started>>

\* check_integrity: read_to_string("ratel.yaml") and from_str.
StartCheck(p) ==
    /\ ~Active(p)
    /\ started < MaxStarts
    /\ started' = started + 1
    /\ Step(p, IF ~ledger.exists THEN Died("check", ConfigMissingMsg)
               ELSE IF ~YamlOk(ledger.content) THEN Died("check", UnwrapErrMsg)
               ELSE IF TrackedPaths(ledger) = {} THEN [Idle EXCEPT !.op = "check", !.pc = "done"]
               ELSE [Idle EXCEPT !.op = "check", !.pc = "verify",
                                 !.config = FromYaml(ledger.content),
                                 !.todo = TrackedPaths(ledger)])
    /\ UNCHANGED <<files, manifest, ledger, clock, edits, cmd, prev, exit, panic, calls, stdout>>

\* One turn of the loop over expert_hashes: read_to_string(path) and the
\* comparison of the digests.
CheckVerify(p) ==
    /\ procs[p].op = "check"
    /\ procs[p].pc = "verify"
    /\ \E path \in procs[p].todo :
          LET res == CheckEntries(procs[p].config.expert_hashes, <<path>>, 1, files)
          IN  Step(p, IF ~res.ok THEN Died("check", res.panic)
                      ELSE IF procs[p].todo = {path}
                      THEN [procs[p] EXCEPT !.pc = "done", !.todo = {}]
                      ELSE [procs[p] EXCEPT !.todo = @ \ {path}])
    /\ UNCHANGED <<files, manifest, ledger, clock, edits, cmd, prev, exit, panic, calls, stdout,
                   started>>

\* Somebody writes a scenario file while invocations run.
RaceEdit(path, content) ==
    /\ edits < MaxEdits
    /\ edits' = edits + 1
    /\ files[path] # File(content)
    /\ files' = [files EXCEPT ![path] = File(content)]
    /\ procs' = [q \in Procs |->
                    IF Active(q) THEN [procs[q] EXCEPT !.overlapped = TRUE] ELSE procs[q]]
    /\ UNCHANGED <<manifest, ledger, clock, cmd, prev, exit, panic, calls, stdout, started>>

\* The project after ratel init in a directory without package.json.
InitRace ==
    /\ files = setup_security_file([p \in Paths |-> NoFile], SniffPath(FALSE),
                                   generate_default_scenario)
    /\ manifest = FALSE
    /\ ledger = save_ratel_config(SniffType(FALSE), "generic",
                                  InitHashes(SniffPath(FALSE), generate_default_scenario), 0)
    /\ clock = 1
    /\ edits = 0
    /\ cmd = Command("none", "")
    /\ prev = "other"
    /\ exit = ExitOk
    /\ panic = NoPanic
    /\ calls = <<>>
    /\ stdout = <<>>
    /\ procs = [p \in Procs |-> Idle]
    /\ started = 0

NextRace ==
    \/ \E p \in Procs : StartCertify(p)
    \/ \E p \in Procs : CertifyHash(p)
    \/ \E p \in Procs : CertifyTruncate(p)
    \/ \E p \in Procs : CertifyWrite(p)
    \/ \E p \in Procs : StartCheck(p)
    \/ \E p \in Procs : CheckVerify(p)
    \/ \E path \in Paths, content \in Texts : RaceEdit(path, content)

SpecRace == InitRace /\ [][NextRace]_vars

\* ----------------------------------------------------------------- claims
\* run and check write no file: in the state a command leaves, files and
\* ledger are what the command found when it was invoked.

\* Some tracked path cannot be read or has another digest than the ledger's.
Violated(l, fs) ==
    \E p \in TrackedPaths(l) :
        ~fs[p].exists \/ calculate_hash(fs[p].content) # Tracked(l)[p]

IntegrityOk(l, fs) == LedgerParsable(l) /\ ~Violated(l, fs)

IsReport(item) == item.kind = "json" /\ "steps" \in DOMAIN item.value
Reports(out) == SelectSeq(out, IsReport)

Ran == cmd.name = "run"
RunFile == files[cmd.arg]
RanReadable == Ran /\ RunFile.exists
AllReturned(log) == \A k \in 1..Len(log) : log[k].ret.returns

\* The run got as far as the walk and the engine answered every call.
RanWithVerdicts ==
    /\ RanReadable
    /\ IntegrityOk(ledger, files)
    /\ Valid(RunFile.content)
    /\ AllReturned(calls)

EndsWith(str, tail) ==
    Len(str) >= Len(tail) /\ SubSeq(str, Len(str) - Len(tail) + 1, Len(str)) = tail

\* The call is the one made for the action: the attack entry point with the
\* attack's name, the verification entry point with the check's expression
\* at the end of its argument.
CallIsFor(call, action) ==
    IF action.kind = "Attack"
    THEN call.fn = "execute_attack" /\ call.args[2] = action.arg
    ELSE call.fn = "verify_condition" /\ EndsWith(call.args[1], action.arg)

\* C1: a run invoked while a tracked path is unreadable or differs from its
\* digest in the ledger makes no engine call and emits no audit report.
RunGatedByIntegrity ==
    (Ran /\ LedgerParsable(ledger) /\ Violated(ledger, files))
        => (calls = <<>> /\ Reports(stdout) = <<>>)

WitnessRunGated ==
    /\ RanReadable
    /\ LedgerParsable(ledger)
    /\ cmd.arg \in TrackedPaths(ledger)
    /\ Violated(ledger, files)
    /\ Valid(RunFile.content)
    /\ NumActionLines(RunFile.content) > 0
    /\ exit = ExitPanic

\* C2: a run of a text the grammar rejects makes no engine call and ends
\* with a nonzero exit code; when the run reaches the parser, it prints the
\* object {status: "error", error_type: "PARSING_ERROR", message} and
\* nothing else.
ParseFailureAtomic ==
    (RanReadable /\ ~Valid(RunFile.content))
        => /\ calls = <<>>
           /\ exit # ExitOk
           /\ IntegrityOk(ledger, files)
                => /\ exit = ExitParseError
                   /\ Len(stdout) = 1
                   /\ stdout[1].kind = "json"
                   /\ DOMAIN stdout[1].value = {"status", "error_type", "message"}
                   /\ stdout[1].value.status = "error"
                   /\ stdout[1].value.error_type = "PARSING_ERROR"

WitnessParseFailure ==
    /\ RanReadable
    /\ RunFile.content = "unterminated"
    /\ exit = ExitParseError
    /\ Len(stdout) = 1

\* C3: when the engine answers every call with a verdict, the engine calls
\* of a run are the actions of the AST in source order, one call per action,
\* whatever the verdicts.
EngineCallsInSourceOrder ==
    RanWithVerdicts
        => LET flat == Flatten(Ast(RunFile.content))
           IN  /\ Len(calls) = Len(flat)
               /\ \A k \in 1..Len(flat) : CallIsFor(calls[k], flat[k])

WitnessCallsInOrder ==
    /\ RanWithVerdicts
    /\ RunFile.content = "twostep"
    /\ Len(calls) = 3
    /\ ~calls[1].ret.success
    /\ ~calls[2].ret.success

RECURSIVE Offset(_, _)
\* The number of actions of the steps before step i.
Offset(steps, i) == IF i <= 1 THEN 0 ELSE Offset(steps, i - 1) + Len(steps[i - 1].actions)

ResultMirrors(result, action, ret) ==
    /\ result.kind = (IF action.kind = "Attack" THEN "ATTACK" ELSE "CHECK")
    /\ result.status = (IF ret.success THEN "SUCCESS" ELSE "FAILED")
    /\ result.message = ret.message

\* C4: when the engine answers every call with a verdict, the report has one
\* StepResult per Step, in order and with the Step's title, and the i-th
\* ActionResult of a StepResult has the kind of the i-th Action, status
\* SUCCESS exactly when the engine returned success = true, FAILED otherwise,
\* and the engine's message.
ReportMirrorsAst ==
    RanWithVerdicts
        => /\ exit = ExitOk
           /\ Len(stdout) = 1
           /\ IsReport(stdout[1])
           /\ LET report == stdout[1].value
                  ast == Ast(RunFile.content)
              IN  /\ Len(report.steps) = Len(ast.steps)
                  /\ \A i \in 1..Len(ast.steps) :
                        /\ report.steps[i].title = ast.steps[i].title
                        /\ Len(report.steps[i].results) = Len(ast.steps[i].actions)
                        /\ \A j \in 1..Len(ast.steps[i].actions) :
                              ResultMirrors(report.steps[i].results[j],
                                            ast.steps[i].actions[j],
                                            calls[Offset(ast.steps, i) + j].ret)

WitnessReportMirrors ==
    /\ RanWithVerdicts
    /\ RunFile.content = "twostep"
    /\ Len(stdout) = 1
    /\ Len(stdout[1].value.steps) = 2
    /\ stdout[1].value.steps[1].results[1].status = "FAILED"
    /\ stdout[1].value.steps[2].results[1].status = "SUCCESS"
    /\ stdout[1].value.steps[2].results[1].message # stdout[1].value.steps[2].results[2].message

\* The run printed one report, with one ActionResult per action statement
\* of the scenario.
RECURSIVE CountResults(_, _)
CountResults(steps, i) ==
    IF i > Len(steps) THEN 0 ELSE Len(steps[i].results) + CountResults(steps, i + 1)

FullReportEmitted ==
    /\ exit = ExitOk
    /\ Len(stdout) = 1
    /\ IsReport(stdout[1])
    /\ CountResults(stdout[1].value.steps, 1) = NumActionLines(RunFile.content)

\* The run got as far as the walk and some engine call did not return.
RanWithEngineFailure ==
    /\ RanReadable
    /\ IntegrityOk(ledger, files)
    /\ Valid(RunFile.content)
    /\ ~AllReturned(calls)

\* C5: an engine call that does not return a verdict is recorded as an
\* ActionResult with status ERROR; the calls for the remaining actions are
\* made and the report is emitted with one ActionResult per action.
EngineFailureIsLocal ==
    RanWithEngineFailure
        => /\ Len(calls) = Len(Flatten(Ast(RunFile.content)))
           /\ FullReportEmitted
           /\ \E i \in 1..Len(stdout[1].value.steps) :
                 \E j \in 1..Len(stdout[1].value.steps[i].results) :
                     stdout[1].value.steps[i].results[j].status = "ERROR"

BaselineThenCheck ==
    (cmd.name = "check" /\ prev \in {"init", "certify"})
        => (exit = ExitOk /\ panic = NoPanic)

WitnessBaselineThenCheck ==
    /\ cmd.name = "check"
    /\ prev = "certify"
    /\ exit = ExitOk
    /\ \E p \in TrackedPaths(ledger) : files[p].content = "twostep"
    /\ \E p \in Paths : p \notin TrackedPaths(ledger) /\ ~files[p].exists

Checked == cmd.name = "check" /\ LedgerParsable(ledger)
Unreadable(l, fs) == {p \in TrackedPaths(l) : ~fs[p].exists}
Modified(l, fs) ==
    {p \in TrackedPaths(l) : fs[p].exists /\ calculate_hash(fs[p].content) # Tracked(l)[p]}

CheckSucceedsIffIntact == (exit = ExitOk) <=> ~Violated(ledger, files)

OneModifiedIsNamed ==
    \A p \in TrackedPaths(ledger) :
        (Modified(ledger, files) = {p} /\ Unreadable(ledger, files) = {})
            => (exit = ExitPanic /\ panic = AlertMsg(p))

\* C8 as stated: check succeeds exactly when every tracked path is readable
\* and has its digest; one modified file among intact ones is named in the
\* violation; an unreadable tracked file makes check fail with File missing.
CheckDetectsEveryTampering ==
    Checked
        => /\ CheckSucceedsIffIntact
           /\ OneModifiedIsNamed
           /\ Unreadable(ledger, files) # {}
                => (exit = ExitPanic /\ panic = FileMissingMsg)

\* C8: check succeeds exactly when every tracked path is readable and has
\* its digest; one modified file among intact ones is named in the
\* violation; an unreadable tracked file makes check fail with File missing
\* when no tracked file is modified, and otherwise with File missing or with
\* the violation of a modified file, whichever entry the map yields first.
CheckDetectsTampering ==
    Checked
        => /\ CheckSucceedsIffIntact
           /\ OneModifiedIsNamed
           /\ Unreadable(ledger, files) # {}
                => /\ exit = ExitPanic
                   /\ \/ panic = FileMissingMsg
                      \/ \E p \in Modified(ledger, files) : panic = AlertMsg(p)
           /\ (Unreadable(ledger, files) # {} /\ Modified(ledger, files) = {})
                => panic = FileMissingMsg

WitnessCheckDetects ==
    /\ Checked
    /\ Unreadable(ledger, files) # {}
    /\ \E p \in Modified(ledger, files) : panic = AlertMsg(p)

\* C9: certify on a parsable ledger with tracked map T succeeds and persists
\* the map of the readable keys of T to the digests of their current
\* contents, without the keys whose file is gone, and customized_at set to
\* the time of the call.
CertifyRebaselines ==
    [][(AtPrompt /\ cmd'.name = "certify" /\ LedgerParsable(ledger))
          => /\ exit' = ExitOk
             /\ LedgerParsable(ledger')
             /\ Tracked(ledger') =
                   [p \in TrackedPaths(ledger) \ Unreadable(ledger, files)
                       |-> calculate_hash(files[p].content)]
             /\ \A p \in Unreadable(ledger, files) : p \notin TrackedPaths(ledger')
             /\ FromYaml(ledger'.content).customized_at = Some(clock)]_vars

WitnessCertifyRebaselines ==
    /\ cmd.name = "certify"
    /\ exit = ExitOk
    /\ edits > 0
    /\ TrackedPaths(ledger) = {}
    /\ Len(FromYaml(ledger.content).customized_at) = 1

\* C10: after init the default scenario is at tests/ratel/security.ratel
\* when package.json exists and at security.ratel when it does not, and the
\* ledger tracks exactly that path with the digest of what was written, has
\* no customized_at and has the context given to init.
InitBaseline ==
    cmd.name = "init"
        => LET path == IF manifest THEN "tests/ratel/security.ratel" ELSE "security.ratel"
               config == FromYaml(ledger.content)
           IN  /\ exit = ExitOk
               /\ files[path].exists
               /\ files[path].content = generate_default_scenario
               /\ LedgerParsable(ledger)
               /\ DOMAIN config.expert_hashes = {path}
               /\ config.expert_hashes[path] = calculate_hash(files[path].content)
               /\ config.customized_at = None
               /\ config.context = cmd.arg

WitnessInitBaseline ==
    /\ cmd.name = "init"
    /\ manifest
    /\ cmd.arg = "ci"
    /\ files["tests/ratel/security.ratel"].exists
    /\ TrackedPaths(ledger) = {"tests/ratel/security.ratel"}

\* An init is invoked on a project that has a ledger.
InitOnInitialized == AtPrompt /\ cmd'.name = "init" /\ ledger.exists

\* C11 as stated: init on a project that has a ledger fails and leaves the
\* ledger and the scenario files as they were.
InitOnInitializedRejected ==
    [][InitOnInitialized
          => (exit' # ExitOk /\ ledger' = ledger /\ files' = files)]_vars

\* C11: init on a project that has a ledger succeeds and starts over: it
\* writes the default scenario at the path the probe selects, leaves the
\* other scenario files alone and replaces the ledger by a new one that
\* tracks that path alone, with initialized_at the time of this init and no
\* customized_at.
InitOnInitializedOverwrites ==
    [][InitOnInitialized
          => LET path == IF manifest THEN "tests/ratel/security.ratel" ELSE "security.ratel"
                 config == FromYaml(ledger'.content)
             IN  /\ exit' = ExitOk
                 /\ files'[path] = File("default")
                 /\ \A p \in Paths \ {path} : files'[p] = files[p]
                 /\ LedgerParsable(ledger')
                 /\ DOMAIN config.expert_hashes = {path}
                 /\ config.expert_hashes[path] = calculate_hash("default")
                 /\ config.initialized_at = clock
                 /\ config.customized_at = None]_vars

\* An init right after a certify: the ledger the certify wrote is replaced.
WitnessInitOverwrites ==
    /\ cmd.name = "init"
    /\ prev = "certify"
    /\ exit = ExitOk
    /\ LedgerParsable(ledger)
    /\ FromYaml(ledger.content).customized_at = None
    /\ FromYaml(ledger.content).initialized_at > 0

\* check, certify or run is invoked.
LedgerCommand == AtPrompt /\ cmd'.name \in {"check", "certify", "run"}

\* The command failed and left the ledger and the files as they were,
\* without an engine call.
FailedWithoutEffect ==
    /\ exit' # ExitOk
    /\ ledger' = ledger
    /\ files' = files
    /\ calls' = <<>>

\* C12: without a ledger, check, certify and run fail with a message that
\* the configuration is missing, write no ledger, change no file and make
\* no engine call; with a ledger that cannot be parsed they fail with
\* another message, the ledger and the files again unchanged.
UninitializedOpsFail ==
    [][LedgerCommand
          => /\ ~ledger.exists
                  => /\ FailedWithoutEffect
                     /\ panic' \in {ConfigMissingMsg, CertifyMissingMsg}
             /\ (ledger.exists /\ ~YamlOk(ledger.content))
                  => /\ FailedWithoutEffect
                     /\ panic' # NoPanic
                     /\ panic' \notin {ConfigMissingMsg, CertifyMissingMsg}]_vars

\* A run of a scenario the grammar accepts, on a ledger cut short.
WitnessCorruptLedger ==
    /\ RanReadable
    /\ Valid(RunFile.content)
    /\ ledger.exists
    /\ ~YamlOk(ledger.content)
    /\ exit = ExitPanic
    /\ panic = UnwrapErrMsg
    /\ calls = <<>>

\* C13: whenever a run makes an engine call, the path given to run is a key
\* of the ledger's tracked map and the text the run parsed has the digest
\* the ledger records for that path.
OnlyVerifiedReachEngine ==
    (Ran /\ calls # <<>>)
        => /\ LedgerParsable(ledger)
           /\ cmd.arg \in TrackedPaths(ledger)
           /\ calculate_hash(RunFile.content) = Tracked(ledger)[cmd.arg]

RECURSIVE FlattenResults(_, _)
\* The ActionResults of a report in order.
FlattenResults(steps, i) ==
    IF i > Len(steps) THEN <<>> ELSE steps[i].results \o FlattenResults(steps, i + 1)

\* C14: for every CHECK statement, the string given to verify_condition and
\* stored as the value of its ActionResult is the expression that follows
\* the keyword, without the keyword; for every ATTACK statement it is the
\* identifier.
CheckPassesOnlyExpression ==
    (RanWithVerdicts /\ exit = ExitOk)
        => LET flat == Flatten(Ast(RunFile.content))
               results == FlattenResults(stdout[1].value.steps, 1)
           IN  \A k \in 1..Len(flat) :
                   /\ calls[k].args[Len(calls[k].args)] = flat[k].arg
                   /\ results[k].value = flat[k].arg

Done(p) == procs[p].pc = "done"
SawCorruptLedger(p) == Done(p) /\ procs[p].result = Panicked(UnwrapErrMsg)
LeftStaleDigest(p) == Done(p) /\ procs[p].op = "certify" /\ procs[p].stale

\* C15: with the reads and the write of check and certify as steps of their
\* own and nothing locking ratel.yaml, an invocation that finds ratel.yaml
\* half written, or a certify that persists a digest that is not the
\* file's when it completes, is an invocation that ran while another
\* invocation ran or a tracked file was edited; the witness is the
\* interleaving in which both happen.
RaceNeedsOverlap ==
    \A p \in Procs : (SawCorruptLedger(p) \/ LeftStaleDigest(p)) => procs[p].overlapped

\* A check has read the ledger a certify was writing, and that certify, the
\* last invocation to complete, has persisted the digest of a content the
\* file no longer has.
WitnessRace ==
    \E p, q \in Procs :
        /\ procs[p].op = "check"
        /\ SawCorruptLedger(p)
        /\ LeftStaleDigest(q)
        /\ LedgerParsable(ledger)
        /\ Violated(ledger, files)
        /\ \A r \in Procs : ~Active(r)

\* C16: a check and a run, whether they succeed or fail, leave ratel.yaml
\* with every field it had and every scenario file with the content it had.
CheckAndRunReadOnly ==
    [][(AtPrompt /\ cmd'.name \in {"check", "run"})
          => (ledger' = ledger /\ files' = files)]_vars

\* A run that emitted its report on a ledger a certify had stamped, beside a
\* scenario file the ledger does not track.
WitnessReadOnly ==
    /\ Ran
    /\ FullReportEmitted
    /\ calls # <<>>
    /\ LedgerParsable(ledger)
    /\ FromYaml(ledger.content).customized_at # None
    /\ \E p \in Paths : files[p].exists /\ p \notin TrackedPaths(ledger)

\* The tracked paths of a ledger file, none when it has no parsable ledger.
PathsOf(l) == IF LedgerParsable(l) THEN TrackedPaths(l) ELSE {}

\* C17: a successful certify leaves version, project_type, context and
\* initialized_at of the ledger and every scenario file unchanged and tracks
\* no path the ledger did not track; of the commands, init alone makes the
\* ledger track a path it did not track.
CertifyFrame ==
    [][/\ (AtPrompt /\ cmd'.name = "certify" /\ exit' = ExitOk)
            => LET old == FromYaml(ledger.content)
                   new == FromYaml(ledger'.content)
               IN  /\ LedgerParsable(ledger')
                   /\ new.version = old.version
                   /\ new.project_type = old.project_type
                   /\ new.context = old.context
                   /\ new.initialized_at = old.initialized_at
                   /\ files' = files
                   /\ TrackedPaths(ledger') \subseteq TrackedPaths(ledger)
       /\ (AtPrompt /\ cmd'.name # "none" /\ ~(PathsOf(ledger') \subseteq PathsOf(ledger)))
            => cmd'.name = "init"]_vars

\* A certify of a Node.js project initialised with another context than the
\* default, some time after its init, that dropped the path init tracked.
WitnessCertifyFrame ==
    /\ cmd.name = "certify"
    /\ exit = ExitOk
    /\ LedgerParsable(ledger)
    /\ FromYaml(ledger.content).project_type = "Node.js"
    /\ FromYaml(ledger.content).context = "ci"
    /\ FromYaml(ledger.content).customized_at = Some(2)
    /\ FromYaml(ledger.content).initialized_at = 0
    /\ NodeScenarioPath \notin TrackedPaths(ledger)

====
